---- MODULE Spec2Model ----
(***************************************************************************)
(* A model of the function-calling driver of ai-functions:                 *)
(*   ai_lib::drive and OpenAIClient::chat_completion (src/ai_lib/src/lib.rs)*)
(*   the dispatch generated by #[ai_functions] (src/ai_macros/src/lib.rs)   *)
(*   Story::write_chapter_outlines (src/ai_bin/src/main.rs)                 *)
(* Strings are sequences of string tokens, so that format! is \o.          *)
(* Option<T> is a sequence of length at most one: <<>> is None.            *)
(***************************************************************************)
EXTENDS Integers, Sequences, FiniteSets, TLC

VARIABLES
    pc,            \* position of drive: "next", "for", "http", "sleep", "done", "panicked";
                   \* "call" where call_function is called directly
    next_prompt,   \* drive's next_prompt (lib.rs:264)
    messages,      \* the turn's message list (lib.rs:273)
    functions,     \* the turn's resolved descriptors (lib.rs:275)
    function_call, \* the turn's selection mode (lib.rs:280)
    attempt,       \* iterations of for _ in 0..5 begun in this turn (lib.rs:286)
    request,       \* Option: the request handed to chat_completion (lib.rs:287)
    wait_time,     \* chat_completion's wait_time, in seconds (lib.rs:146)
    state,         \* the agent state state: &mut S
    result,        \* Option: what drive returned, Ok(()) or Err(text)
    panic,         \* Option: the panic that ended the process
    dispatched,    \* history: the result of the call_function of the last step, if any
    turn,          \* history: number of turns begun
    turn_sends,    \* history: chat_completion calls made in this turn
    turn_retries,  \* history: Recoverable results met in this turn
    sends,         \* history: chat_completion calls made in this run
    calls,         \* history: handler invocations made in this run
    call,          \* history: Option, the CalledFunction dispatched in the last step
    posts,         \* history: requests posted by the current call of chat_completion
    slept          \* history: seconds slept by the current call of chat_completion

vars == <<pc, next_prompt, messages, functions, function_call, attempt, request,
          wait_time, state, result, panic, dispatched, turn, turn_sends, turn_retries,
          sends, calls, call, posts, slept>>

(***************************************************************************)
(* Bounds and program constants                                            *)
(***************************************************************************)
MaxTurns == 2

MaxAttempts == 5

InitialWait == 1

MaxWait == 60

MinOutlineLen == 80

\* handler invocations made on one agent by the direct calls of call_function
MaxCalls == 2

None == <<>>

Some(x) == <<x>>

Garbage == "<not json>"

(***************************************************************************)
(* Messages                                                                *)
(***************************************************************************)
SerializeCalledFunction(cf) ==
    <<"{\"name\":", cf.name, ",\"arguments\":">> \o cf.arguments \o <<"}">>

User(content) ==
    [role |-> "user", content |-> Some(content), function_call |-> None]

HasFunctionCall(m) == m.function_call /= None

FunctionToContentRaw(m) == m

\* Message::function_to_content
FunctionToContent(m) ==
    [role |-> "assistant",
     content |-> Some(SerializeCalledFunction(m.function_call[1])),
     function_call |-> None]

MustCallText == <<"You must call one of the provided functions">>

ErrorTextBare(e) == e

ErrorText(e) == <<"Error: ">> \o e

TooManyErrors == <<"Too many errors">>

(***************************************************************************)
(* Outcomes and results                                                    *)
(***************************************************************************)
Done == [kind |-> "Done", temperature |-> 0, prompt |-> <<>>, functions |-> <<>>]

Prompt(t, p, fs) == [kind |-> "Prompt", temperature |-> t, prompt |-> p, functions |-> fs]

Ok(next) == [kind |-> "Ok", next |-> next, msg |-> <<>>]

Recoverable(msg) == [kind |-> "Recoverable", next |-> Done, msg |-> msg]

Unrecoverable(msg) == [kind |-> "Unrecoverable", next |-> Done, msg |-> msg]

NoDispatch == [kind |-> "none", next |-> Done, msg |-> <<>>]

(***************************************************************************)
(* The agent: two declared functions A and B whose handlers are arbitrary  *)
(* (the AiState trait), Story::write_chapter_outlines, and                 *)
(* write_random_words, whose parameter random_words has a name of two      *)
(* words.  X and Y are names no #[ai_function] declares.                   *)
(***************************************************************************)
FnA == "A"

FnB == "B"

FnW == "write_chapter_outlines"

FnR == "write_random_words"

FnX == "X"

FnY == "Y"

Declared == {FnA, FnB, FnW, FnR}

InitialState == [chapter_summaries |-> <<>>, data |-> <<>>]

ToCaseUnconverted(ident, case) == ident

\* convert_case's to_case, on the parameter identifiers the agent declares
ToCase(ident, case) ==
    CASE ident = "outlines" /\ case = "Pascal" -> "Outlines"
      [] ident = "input" /\ case = "Pascal" -> "Input"
      [] ident = "random_words" /\ case = "Camel" -> "randomWords"
      [] ident = "random_words" /\ case = "Pascal" -> "RandomWords"
      [] OTHER -> ident

Cases == {"Snake", "Camel", "Pascal"}

SerdeAliases(ident) == {ToCase(ident, c) : c \in Cases}

ParamOf(name) ==
    CASE name = FnW -> "outlines"
      [] name = FnR -> "random_words"
      [] OTHER -> "input"

\* schemars' rename_all = "camelCase", on the same identifiers
RenameAllCamelCase(ident) ==
    CASE ident = "random_words" -> "randomWords"
      [] OTHER -> ident

DescriptionOf(name) == IF name = FnW THEN <<"Write chapter outlines">> ELSE <<name>>

JsonSchemaForAnyName(name) ==
    Some([name |-> name, description |-> <<name>>, parameters |-> <<"input">>])

\* json_schema_for_function: Option<Function>
JsonSchemaForFunction(name) ==
    IF name \in Declared
    THEN Some([name |-> name,
               description |-> DescriptionOf(name),
               parameters |-> <<RenameAllCamelCase(ParamOf(name))>>])
    ELSE None

\* serde_json::from_str::<Args>(arg) for an Args struct with the one field ident:
\* a payload is <<key, value, ..., value>>, or text that is not JSON
FromStr(ident, arg) ==
    IF arg = <<>> THEN [ok |-> FALSE, value |-> <<>>,
                        err |-> <<"EOF while parsing a value at line 1 column 0">>]
    ELSE IF Head(arg) = Garbage
    THEN [ok |-> FALSE, value |-> <<>>, err |-> <<"expected value at line 1 column 1">>]
    ELSE IF Head(arg) \in SerdeAliases(ident) \cup {ident}
    THEN [ok |-> TRUE, value |-> Tail(arg), err |-> <<>>]
    ELSE [ok |-> FALSE, value |-> <<>>, err |-> <<"missing field ", ident, "">>]

\* str::len of the outline texts the backend may write
OutlineLen(outline) ==
    CASE outline = "short79" -> 79
      [] outline = "long80" -> 80
      [] OTHER -> 0

Digit(d) ==
    CASE d = 0 -> "0" [] d = 1 -> "1" [] d = 2 -> "2" [] d = 3 -> "3" [] d = 4 -> "4"
      [] d = 5 -> "5" [] d = 6 -> "6" [] d = 7 -> "7" [] d = 8 -> "8" [] OTHER -> "9"

RECURSIVE ToDecimal(_)
ToDecimal(n) == IF n < 10 THEN <<Digit(n)>> ELSE ToDecimal(n \div 10) \o <<Digit(n % 10)>>

TooShortText(outline) ==
    <<"Chapter outlines should be a few sentences at least, but this one was only ">>
    \o ToDecimal(OutlineLen(outline))
    \o <<" characters long: ", outline, ". Write longer outlines for each chapter.">>

IsTooShortInclusive(outline) == OutlineLen(outline) <= MinOutlineLen

IsTooShort(outline) == OutlineLen(outline) < MinOutlineLen

WriteChapterOutlinesFirstOnly(st, outlines) ==
    IF outlines /= <<>> /\ IsTooShort(outlines[1])
    THEN [result |-> Recoverable(TooShortText(outlines[1])), state |-> st,
          invoked |-> TRUE]
    ELSE [result |-> Ok(Done), state |-> [st EXCEPT !.chapter_summaries = outlines],
          invoked |-> TRUE]

\* Story::write_chapter_outlines
WriteChapterOutlines(st, outlines) ==
    LET short == {i \in 1..Len(outlines) : IsTooShort(outlines[i])}
        first == CHOOSE i \in short : \A j \in short : i <= j
    IN  IF short /= {}
        THEN [result |-> Recoverable(TooShortText(outlines[first])), state |-> st,
              invoked |-> TRUE]
        ELSE [result |-> Ok(Done), state |-> [st EXCEPT !.chapter_summaries = outlines],
              invoked |-> TRUE]

\* a handler of the trait: it stores its argument, as SimpleExample::write_topic does,
\* and returns h, which is any AiFunctionResult
AnyHandler(st, input, h) ==
    [result |-> h, state |-> [st EXCEPT !.data = input], invoked |-> TRUE]

NotFoundTextNoName(name) == <<"Function not found">>

\* the text of the fallback arm of call_function
NotFoundText(name) == <<"Function ", name, " not found">>

FromSerdeErrorUnrecoverable(e) == Unrecoverable(e)

\* impl From<serde_json::Error> for AiFunctionError, applied by the ? of from_str
FromSerdeError(e) == Recoverable(e)

DispatchableIfAllowed(name) ==
    /\ name \in Declared
    /\ \E i \in 1..Len(next_prompt.functions) : next_prompt.functions[i] = name

\* the arms of the match of call_function: one for each declared function
Dispatchable(name) == name \in Declared

\* call_function, as #[ai_functions] generates it
CallFunction(st, name, arg, h) ==
    IF Dispatchable(name)
    THEN LET args == FromStr(ParamOf(name), arg)
         IN  IF ~args.ok
             THEN [result |-> FromSerdeError(args.err), state |-> st, invoked |-> FALSE]
             ELSE IF name = FnW
                  THEN WriteChapterOutlines(st, args.value)
                  ELSE AnyHandler(st, args.value, h)
    ELSE [result |-> Recoverable(NotFoundText(name)), state |-> st, invoked |-> FALSE]

(***************************************************************************)
(* What the environment may supply: the outcomes initial() and the         *)
(* handlers return, and the responses of the backend.                      *)
(***************************************************************************)
PromptOutcomes ==
    { Prompt(8, <<"prompt one">>, <<FnA>>),
      Prompt(5, <<"prompt two">>, <<FnB>>),
      Prompt(5, <<"prompt three">>, <<FnA, FnB>>),
      Prompt(5, <<"prompt seven">>, <<FnB, FnW, FnA>>),
      Prompt(5, <<"prompt four">>, <<FnW>>),
      Prompt(0, <<"prompt five">>, <<FnX>>),
      Prompt(0, <<"prompt eight">>, <<FnA, FnX>>),
      Prompt(0, <<"prompt six">>, <<>>) }

Outcomes == {Done} \cup PromptOutcomes

\* what the handler of a declared function may return in turn t; the result
\* of write_chapter_outlines is computed, so nothing is chosen for it
HandlerReturns(name, t) ==
    IF name \in Declared \ {FnW}
    THEN {Ok(o) : o \in IF t < MaxTurns THEN Outcomes ELSE {Done}}
         \cup {Unrecoverable(<<"fatal">>)}
    ELSE {Ok(Done)}

BackendCalls ==
    { [name |-> FnA, arguments |-> <<"input", "text">>],
      [name |-> FnB, arguments |-> <<"input", "text">>],
      [name |-> FnX, arguments |-> <<"input", "text">>],
      [name |-> FnW, arguments |-> <<"outlines", "long80">>],
      [name |-> FnW, arguments |-> <<"outlines", "long80", "short79">>] }

CallMessages ==
    {[role |-> "assistant", content |-> None, function_call |-> Some(cf)] : cf \in BackendCalls}

TextMessage ==
    [role |-> "assistant", content |-> Some(<<"I would rather chat">>), function_call |-> None]

\* the choices of a well-formed response body
ChoiceLists ==
    {<<>>} \cup {<<m>> : m \in CallMessages \cup {TextMessage}}
           \cup {<<TextMessage, m>> : m \in CallMessages}
           \cup {<<m, TextMessage>> : m \in {c \in CallMessages : c.function_call[1].name = FnB}}

(***************************************************************************)
(* drive                                                                   *)
(***************************************************************************)
Auto == [mode |-> "auto", name |-> ""]

Exact(name) == [mode |-> "exact", name |-> name]

OkUnit == [ok |-> TRUE, err |-> <<>>]

Err(e) == [ok |-> FALSE, err |-> e]

Init ==
    /\ pc = "next"
    /\ next_prompt \in Outcomes
    /\ messages = <<>>
    /\ functions = <<>>
    /\ function_call = Auto
    /\ attempt = 0
    /\ request = None
    /\ wait_time = InitialWait
    /\ state = InitialState
    /\ result = None
    /\ panic = None
    /\ dispatched = NoDispatch
    /\ turn = 0
    /\ turn_sends = 0
    /\ turn_retries = 0
    /\ sends = 0
    /\ calls = 0
    /\ call = None
    /\ posts = 0
    /\ slept = 0

Resolved(fs) == [i \in 1..Len(fs) |-> JsonSchemaForFunction(fs[i])]

SelectionModeAlwaysAuto(descs) == Auto

SelectionMode(descs) == IF Len(descs) = 1 THEN Exact(descs[1].name) ELSE Auto

FirstMessagesCarriedOver(prompt) == Append(messages, User(prompt))

\* lib.rs:273, let mut messages = vec![Message::user(prompt)]
FirstMessages(prompt) == <<User(prompt)>>

BuildRequest(msgs, descs, mode, temp) ==
    [model |-> "gpt-3.5-turbo-0613", messages |-> msgs, functions |-> Some(descs),
     function_call |-> Some(mode), temperature |-> temp, max_tokens |-> None]

LoopContinuesInclusive(i) == i <= MaxAttempts

LoopContinues(i) == i < MaxAttempts

ReturnOkAsErr == Some(Err(<<>>))

\* lib.rs:270, return Ok(())
ReturnOk == Some(OkUnit)

ReturnErrGeneric(e) == Some(Err(TooManyErrors))

\* lib.rs:313 and 319, return Err(e)
ReturnErr(e) == Some(Err(e))

DescriptorsOfAllDeclared(fs) ==
    <<JsonSchemaForFunction(FnA)[1], JsonSchemaForFunction(FnB)[1],
      JsonSchemaForFunction(FnW)[1]>>

\* lib.rs:275-278
Descriptors(fs) == [i \in 1..Len(fs) |-> Resolved(fs)[i][1]]

\* drive is left, by return or by panic: its locals are dropped
DropLocals ==
    /\ messages' = <<>>
    /\ functions' = <<>>
    /\ function_call' = Auto
    /\ attempt' = 0
    /\ request' = None
    /\ wait_time' = InitialWait
    /\ posts' = 0
    /\ slept' = 0

\* lib.rs:270
ReturnDone ==
    /\ pc = "next"
    /\ next_prompt.kind = "Done"
    /\ pc' = "done"
    /\ result' = ReturnOk
    /\ dispatched' = NoDispatch /\ call' = None
    /\ DropLocals
    /\ UNCHANGED <<next_prompt, state, panic, turn, turn_sends, turn_retries, sends, calls>>

BeginTurnKeepsAttempt ==
    /\ pc = "next"
    /\ next_prompt.kind = "Prompt"
    /\ \A i \in 1..Len(next_prompt.functions) : Resolved(next_prompt.functions)[i] /= None
    /\ messages' = FirstMessages(next_prompt.prompt)
    /\ functions' = Descriptors(next_prompt.functions)
    /\ function_call' = SelectionMode(functions')
    /\ attempt' = attempt
    /\ pc' = "for"
    /\ turn' = turn + 1
    /\ turn_sends' = 0
    /\ turn_retries' = 0
    /\ dispatched' = NoDispatch /\ call' = None
    /\ UNCHANGED <<next_prompt, request, wait_time, posts, slept, state, result, panic,
                   sends, calls>>

\* lib.rs:271-284, every name resolved
BeginTurn ==
    /\ pc = "next"
    /\ next_prompt.kind = "Prompt"
    /\ \A i \in 1..Len(next_prompt.functions) : Resolved(next_prompt.functions)[i] /= None
    /\ messages' = FirstMessages(next_prompt.prompt)
    /\ functions' = Descriptors(next_prompt.functions)
    /\ function_call' = SelectionMode(functions')
    /\ attempt' = 0
    /\ pc' = "for"
    /\ turn' = turn + 1
    /\ turn_sends' = 0
    /\ turn_retries' = 0
    /\ dispatched' = NoDispatch /\ call' = None
    /\ UNCHANGED <<next_prompt, request, wait_time, posts, slept, state, result, panic,
                   sends, calls>>

\* lib.rs:277, unwrap of None
UnresolvedFunction ==
    /\ pc = "next"
    /\ next_prompt.kind = "Prompt"
    /\ \E i \in 1..Len(next_prompt.functions) : Resolved(next_prompt.functions)[i] = None
    /\ pc' = "panicked"
    /\ panic' = Some("UnresolvedFunction")
    /\ dispatched' = NoDispatch /\ call' = None
    /\ DropLocals
    /\ UNCHANGED <<next_prompt, state, result, turn, turn_sends, turn_retries, sends, calls>>

\* lib.rs:286-296 and 146-156: an iteration begins, the request is built and posted
SendRequest ==
    /\ pc = "for"
    /\ LoopContinues(attempt)
    /\ attempt' = attempt + 1
    /\ request' = Some(BuildRequest(messages, functions, function_call,
                                    next_prompt.temperature))
    /\ wait_time' = InitialWait
    /\ posts' = 1
    /\ slept' = 0
    /\ pc' = "http"
    /\ turn_sends' = turn_sends + 1
    /\ sends' = sends + 1
    /\ dispatched' = NoDispatch /\ call' = None
    /\ UNCHANGED <<next_prompt, messages, functions, function_call, state, result,
                   panic, turn, turn_retries, calls>>

\* lib.rs:319
ExhaustAttempts ==
    /\ pc = "for"
    /\ ~LoopContinues(attempt)
    /\ pc' = "done"
    /\ result' = ReturnErr(TooManyErrors)
    /\ dispatched' = NoDispatch /\ call' = None
    /\ DropLocals
    /\ UNCHANGED <<next_prompt, state, panic, turn, turn_sends, turn_retries, sends, calls>>

(***************************************************************************)
(* chat_completion: the answers to the posted request                      *)
(***************************************************************************)
MayWaitTwiceTheCap(w) == w < 2 * MaxWait

\* lib.rs:161, if wait_time < max_wait_time
MayWait(w) == w < MaxWait

NextWaitByOne(w) == w + 1

\* lib.rs:163, wait_time *= 2
NextWait(w) == w * 2

CrashLosesState(why) ==
    /\ pc' = "panicked"
    /\ panic' = Some(why)
    /\ dispatched' = NoDispatch /\ call' = None
    /\ DropLocals
    /\ state' = InitialState
    /\ UNCHANGED <<next_prompt, result, turn, turn_sends, turn_retries, sends, calls>>

\* a panic inside chat_completion or on what it returned: drive is left, the agent
\* state, which the caller owns, is as it was
Crash(why) ==
    /\ pc' = "panicked"
    /\ panic' = Some(why)
    /\ dispatched' = NoDispatch /\ call' = None
    /\ DropLocals
    /\ UNCHANGED <<next_prompt, state, result, turn, turn_sends, turn_retries, sends, calls>>

\* lib.rs:156 returns the reqwest error, lib.rs:296 unwraps it
TransportFailure ==
    /\ pc = "http"
    /\ Crash("TransportFailure")

\* lib.rs:159-163
TooManyRequests ==
    /\ pc = "http"
    /\ MayWait(wait_time)
    /\ pc' = "sleep"
    /\ dispatched' = NoDispatch /\ call' = None
    /\ UNCHANGED <<next_prompt, messages, functions, function_call, attempt, request,
                   wait_time, posts, slept, state, result, panic, turn, turn_sends,
                   turn_retries, sends, calls>>

\* lib.rs:162-163 and 150-156: the sleep ends, the wait doubles, the request is posted again
SleepOver ==
    /\ pc = "sleep"
    /\ wait_time' = NextWait(wait_time)
    /\ posts' = posts + 1
    /\ slept' = slept + wait_time
    /\ pc' = "http"
    /\ dispatched' = NoDispatch /\ call' = None
    /\ UNCHANGED <<next_prompt, messages, functions, function_call, attempt, request,
                   state, result, panic, turn, turn_sends, turn_retries, sends, calls>>

\* lib.rs:165
ExceededMaxWait ==
    /\ pc = "http"
    /\ ~MayWait(wait_time)
    /\ Crash("ExceededMaxWaitTime")

\* lib.rs:172, unwrap of the serde error
MalformedBody ==
    /\ pc = "http"
    /\ Crash("MalformedBody")

\* lib.rs:297, choices[0] of no choices
NoChoices ==
    /\ pc = "http"
    /\ <<>> \in ChoiceLists
    /\ Crash("NoChoices")

\* lib.rs:298 and 44: function_to_content unwraps the function_call of a message
\* that has none, before the match of lib.rs:299 is reached
NoFunctionCall ==
    /\ pc = "http"
    /\ \E choices \in ChoiceLists :
          /\ choices /= <<>>
          /\ ~HasFunctionCall(choices[1])
    /\ Crash("NoFunctionCall")

\* lib.rs:297-316: the top choice of the response invokes a function; h is what
\* the handler returns if it is not write_chapter_outlines
DispatchWith(choices, h) ==
    /\ pc = "http"
    /\ choices /= <<>>
    /\ HasFunctionCall(choices[1])
    /\ LET message == choices[1]
           cf == message.function_call[1]
           echoed == Append(messages, FunctionToContent(message))
           r == CallFunction(state, cf.name, cf.arguments, h)
       IN  /\ state' = r.state
           /\ calls' = IF r.invoked THEN calls + 1 ELSE calls
           /\ dispatched' = r.result
           /\ call' = Some(cf)
           /\ turn_retries' = IF r.result.kind = "Recoverable"
                              THEN turn_retries + 1 ELSE turn_retries
           /\ CASE r.result.kind = "Ok" ->
                      /\ next_prompt' = r.result.next
                      /\ messages' = echoed
                      /\ request' = None
                      /\ wait_time' = InitialWait
                      /\ posts' = 0
                      /\ slept' = 0
                      /\ pc' = "next"
                      /\ UNCHANGED <<functions, function_call, attempt, result>>
                [] r.result.kind = "Recoverable" ->
                      /\ messages' = Append(echoed, User(ErrorText(r.result.msg)))
                      /\ request' = None
                      /\ wait_time' = InitialWait
                      /\ posts' = 0
                      /\ slept' = 0
                      /\ pc' = "for"
                      /\ UNCHANGED <<next_prompt, functions, function_call, attempt,
                                     result>>
                [] OTHER ->
                      /\ result' = ReturnErr(r.result.msg)
                      /\ pc' = "done"
                      /\ DropLocals
                      /\ UNCHANGED next_prompt
    /\ UNCHANGED <<panic, turn, turn_sends, sends>>

Dispatch ==
    \E choices \in ChoiceLists :
        /\ choices /= <<>>
        /\ HasFunctionCall(choices[1])
        /\ \E h \in HandlerReturns(choices[1].function_call[1].name, turn) :
              DispatchWith(choices, h)

Next ==
    \/ ReturnDone
    \/ BeginTurn
    \/ UnresolvedFunction
    \/ SendRequest
    \/ ExhaustAttempts
    \/ TransportFailure
    \/ TooManyRequests
    \/ SleepOver
    \/ ExceededMaxWait
    \/ MalformedBody
    \/ NoChoices
    \/ NoFunctionCall
    \/ Dispatch

Spec == Init /\ [][Next]_vars

(***************************************************************************)
(* drive against a mock backend that answers every request with a correct  *)
(* invocation of the single allowed function, for an agent whose handlers  *)
(* succeed and whose outcomes each allow one declared function.  The code  *)
(* is the same; only what the environment supplies is narrowed.            *)
(***************************************************************************)
ChainOutcome(o) ==
    \/ o.kind = "Done"
    \/ /\ o.kind = "Prompt"
       /\ Len(o.functions) = 1
       /\ o.functions[1] \in {"A", "B", "write_chapter_outlines"}

CorrectPayloads(name) ==
    IF name = "write_chapter_outlines"
    THEN {<<"outlines", "long80">>}
    ELSE {<<"input", "text">>}

InitChain == Init /\ ChainOutcome(next_prompt)

DispatchChain ==
    \E choices \in ChoiceLists :
        /\ pc = "http"
        /\ choices /= <<>>
        /\ HasFunctionCall(choices[1])
        /\ choices[1].function_call[1].name = next_prompt.functions[1]
        /\ choices[1].function_call[1].arguments
              \in CorrectPayloads(next_prompt.functions[1])
        /\ \E h \in HandlerReturns(choices[1].function_call[1].name, turn) :
              /\ h.kind = "Ok"
              /\ ChainOutcome(h.next)
              /\ DispatchWith(choices, h)

NextChain ==
    \/ ReturnDone
    \/ BeginTurn
    \/ SendRequest
    \/ TooManyRequests
    \/ SleepOver
    \/ DispatchChain

SpecChain == InitChain /\ [][NextChain]_vars /\ WF_vars(NextChain)

(***************************************************************************)
(* chat_completion with every end it has, under drive for the same agent   *)
(* as above: a posted request is answered by "too many requests", by a     *)
(* correct invocation, by a body that does not parse or has no invocation, *)
(* or fails in transport.  Every posted request comes to one of these ends *)
(* and every sleep ends: the awaits of lib.rs:150-156, 162 and 170 resolve.*)
(***************************************************************************)
NextGateway ==
    \/ ReturnDone
    \/ BeginTurn
    \/ SendRequest
    \/ TooManyRequests
    \/ SleepOver
    \/ ExceededMaxWait
    \/ TransportFailure
    \/ MalformedBody
    \/ NoChoices
    \/ NoFunctionCall
    \/ DispatchChain

SpecGateway == InitChain /\ [][NextGateway]_vars /\ WF_vars(NextGateway)

(***************************************************************************)
(* call_function called directly, again and again on one agent, with any   *)
(* name and any payload: what the trait method does for every input, not   *)
(* only for the invocations drive met.                                     *)
(***************************************************************************)
DispatchNames == {FnA, FnB, FnW, FnR, FnX, FnY}

DispatchPayloads ==
    { <<>>,
      <<Garbage>>,
      <<"input", "text">>,
      <<"Input", "text">>,
      <<"INPUT", "text">>,
      <<"random_words", "w1", "w2">>,
      <<"randomWords", "w1", "w2">>,
      <<"RandomWords", "w1", "w2">>,
      <<"random-words", "w1", "w2">>,
      <<"outlines", "long80">>,
      <<"Outlines", "long80">>,
      <<"outlines", "short79">> }

\* what the handler of a declared function other than write_chapter_outlines
\* may return
DispatchHandlerReturns ==
    { Ok(Done), Ok(Prompt(5, <<"prompt two">>, <<FnB>>)),
      Recoverable(<<"try again">>), Unrecoverable(<<"fatal">>) }

InitDispatch ==
    /\ pc = "call"
    /\ next_prompt = Done
    /\ messages = <<>>
    /\ functions = <<>>
    /\ function_call = Auto
    /\ attempt = 0
    /\ request = None
    /\ wait_time = InitialWait
    /\ state = InitialState
    /\ result = None
    /\ panic = None
    /\ dispatched = NoDispatch
    /\ turn = 0
    /\ turn_sends = 0
    /\ turn_retries = 0
    /\ sends = 0
    /\ calls = 0
    /\ call = None
    /\ posts = 0
    /\ slept = 0

CallDispatch ==
    \E name \in DispatchNames, arg \in DispatchPayloads, h \in DispatchHandlerReturns :
        /\ pc = "call"
        /\ calls < MaxCalls
        /\ LET r == CallFunction(state, name, arg, h)
           IN  /\ state' = r.state
               /\ dispatched' = r.result
               /\ calls' = IF r.invoked THEN calls + 1 ELSE calls
        /\ call' = Some([name |-> name, arguments |-> arg])
        /\ UNCHANGED <<pc, next_prompt, messages, functions, function_call, attempt,
                       request, wait_time, posts, slept, result, panic, turn, turn_sends,
                       turn_retries,
                       sends>>

NextDispatch == CallDispatch

SpecDispatch == InitDispatch /\ [][NextDispatch]_vars

(***************************************************************************)
(* Properties                                                              *)
(***************************************************************************)

\* C1: a step in which the dispatched call returns Recoverable(msg) appends, after
\* the echoed assistant message, exactly one user message "Error: msg", consumes the
\* attempt of its iteration and no other (attempts begun = Recoverable results met),
\* and leaves drive at the loop head of the same turn, neither returned nor panicked.
C1_RecoverableAppendsOneCorrection ==
    [][dispatched'.kind = "Recoverable" =>
          /\ pc = "http"
          /\ Len(messages') = Len(messages) + 2
          /\ SubSeq(messages', 1, Len(messages)) = messages
          /\ messages'[Len(messages) + 1].role = "assistant"
          /\ messages'[Len(messages) + 2] =
                [role |-> "user", content |-> << <<"Error: ">> \o dispatched'.msg >>,
                 function_call |-> <<>>]
          /\ attempt' = attempt
          /\ turn_retries' = turn_retries + 1
          /\ attempt' = turn_retries'
          /\ attempt' = turn_sends'
          /\ pc' = "for"
          /\ turn' = turn
          /\ next_prompt' = next_prompt
          /\ result' = <<>>
          /\ panic' = <<>>]_vars

C1_Witness ==
    /\ pc = "for"
    /\ dispatched.kind = "Recoverable"
    /\ turn_retries = 2
    /\ Len(messages) = 5
    /\ messages[5].content = << <<"Error: ", "Function ", "X", " not found">> >>

\* C2 (as amended): once 5 attempts of a turn are consumed without success the only
\* step drive takes is to return Err("Too many errors"), after exactly 5 sends in
\* that turn; no turn ever makes a 6th send.
C2_ExhaustionFails ==
    /\ [](turn_sends <= 5)
    /\ [][(pc = "for" /\ turn_retries = 5) =>
             /\ pc' = "done"
             /\ result' = <<[ok |-> FALSE, err |-> <<"Too many errors">>]>>
             /\ turn_sends = 5
             /\ turn_sends' = 5
             /\ sends' = sends]_vars

C2_Witness ==
    /\ pc = "done"
    /\ result = <<[ok |-> FALSE, err |-> <<"Too many errors">>]>>
    /\ turn_retries = 5
    /\ turn_sends = 5

\* C2 as stated: after 5 consumed attempts the final result is
\* Failed("too many errors"), after exactly 5 sends.
C2_Original ==
    (pc = "done" /\ turn_retries = 5) =>
        /\ result = <<[ok |-> FALSE, err |-> <<"too many errors">>]>>
        /\ turn_sends = 5

\* C3: a step in which the handler returns Unrecoverable(msg) makes drive return
\* Err(msg), msg unchanged, and once drive has returned there is no further gateway
\* call and no further handler invocation.
C3_UnrecoverableEndsDrive ==
    /\ [][dispatched'.kind = "Unrecoverable" =>
             /\ pc' = "done"
             /\ result' = <<[ok |-> FALSE, err |-> dispatched'.msg]>>
             /\ panic' = <<>>
             /\ sends' = sends]_vars
    /\ [][pc = "done" =>
             /\ pc' = "done"
             /\ result' = result
             /\ sends' = sends
             /\ calls' = calls]_vars

C3_Witness ==
    /\ pc = "done"
    /\ dispatched.kind = "Unrecoverable"
    /\ result = <<[ok |-> FALSE, err |-> <<"fatal">>]>>
    /\ turn_sends = 3
    /\ turn = 2

\* C4: a response whose top choice holds no function invocation does not end the
\* process: drive appends the correction and retries.
C4_NoInvocationKeepsRunning == panic /= <<"NoFunctionCall">>

\* C5: while a request of a turn whose Prompt lists exactly one function is with the
\* gateway, its selection mode is forced-exact and names that function.
C5_SingleFunctionForcedExact ==
    (request /= <<>> /\ Len(next_prompt.functions) = 1) =>
        /\ request[1].function_call =
              <<[mode |-> "exact", name |-> next_prompt.functions[1]]>>
        /\ request[1].functions /= <<>>
        /\ Len(request[1].functions[1]) = 1
        /\ request[1].functions[1][1].name = next_prompt.functions[1]

C5_Witness ==
    /\ pc = "http"
    /\ request /= <<>>
    /\ Len(next_prompt.functions) = 1
    /\ attempt = 3
    /\ request[1].function_call = <<[mode |-> "exact", name |-> "write_chapter_outlines"]>>

\* C6: while a request of a turn whose Prompt lists N >= 2 functions is with the
\* gateway, its selection mode is auto and it advertises the descriptors of exactly
\* those N functions, in that order.
C6_ManyFunctionsAuto ==
    (request /= <<>> /\ Len(next_prompt.functions) >= 2) =>
        /\ request[1].function_call = <<[mode |-> "auto", name |-> ""]>>
        /\ request[1].functions /= <<>>
        /\ Len(request[1].functions[1]) = Len(next_prompt.functions)
        /\ \A i \in 1..Len(next_prompt.functions) :
              /\ request[1].functions[1][i].name = next_prompt.functions[i]
              /\ <<request[1].functions[1][i]>> =
                    JsonSchemaForFunction(next_prompt.functions[i])

C6_Witness ==
    /\ pc = "http"
    /\ request /= <<>>
    /\ Len(next_prompt.functions) = 3
    /\ attempt = 2
    /\ request[1].function_call = <<[mode |-> "auto", name |-> ""]>>

\* C7: a run ends with success, with the error of an Unrecoverable result or of
\* attempt exhaustion, or with the process terminated by rate-limit backoff
\* exhaustion, a malformed body or an unresolved allowed function, and by nothing else.
C7_OnlyThreeEndings ==
    /\ pc = "panicked" =>
          panic \in {<<"ExceededMaxWaitTime">>, <<"MalformedBody">>,
                     <<"UnresolvedFunction">>}
    /\ pc = "done" =>
          \/ result = <<[ok |-> TRUE, err |-> <<>>]>>
          \/ /\ dispatched.kind = "Unrecoverable"
             /\ result = <<[ok |-> FALSE, err |-> dispatched.msg]>>
          \/ /\ turn_retries = 5
             /\ result = <<[ok |-> FALSE, err |-> <<"Too many errors">>]>>

\* C8: against the mock backend, a drive whose outcomes form a chain of k one-function
\* Prompts followed by Done never retries, never fails and never panics; when the
\* k-th turn is over it has made exactly k gateway sends and k handler invocations,
\* one of each per turn, and it does return Ok(()).
C8_ChainTakesKSends ==
    /\ [](/\ pc /= "panicked"
          /\ turn_retries = 0
          /\ dispatched.kind \in {"none", "Ok"}
          /\ pc = "for" => (sends = turn - 1 /\ calls = turn - 1)
          /\ pc \in {"http", "sleep"} => (sends = turn /\ calls = turn - 1)
          /\ pc = "next" => (sends = turn /\ calls = turn)
          /\ pc = "done" =>
                /\ result = <<[ok |-> TRUE, err |-> <<>>]>>
                /\ sends = turn
                /\ calls = turn)
    /\ <>(pc = "done")

C8_Witness ==
    /\ pc = "done"
    /\ result = <<[ok |-> TRUE, err |-> <<>>]>>
    /\ turn = 2
    /\ sends = 2
    /\ calls = 2
    /\ state.chapter_summaries = <<"long80">>

\* C9: a step in which the dispatched handler succeeds after j Recoverable results of
\* the same turn (0 <= j <= 4) happens in attempt j + 1, after j + 1 gateway sends, and
\* continues with the outcome the handler returned; write_chapter_outlines answers
\* Recoverable, naming the length, exactly when an outline is shorter than 80, and
\* otherwise stores the outlines and returns Done.
C9_SuccessAfterJRetries ==
    /\ [][dispatched'.kind = "Ok" =>
             /\ pc = "http"
             /\ pc' = "next"
             /\ next_prompt' = dispatched'.next
             /\ turn_retries \in 0..4
             /\ turn_retries' = turn_retries
             /\ attempt' = turn_retries + 1
             /\ turn_sends' = turn_retries + 1
             /\ calls' = calls + 1
             /\ turn' = turn
             /\ result' = <<>>
             /\ panic' = <<>>]_vars
    /\ [][(dispatched'.kind \in {"Ok", "Recoverable"}
           /\ messages'[Len(messages) + 1].content[1][2] = "write_chapter_outlines") =>
             LET echo == messages'[Len(messages) + 1].content[1]
                 outlines == SubSeq(echo, 5, Len(echo) - 1)
             IN  IF \E i \in 1..Len(outlines) : outlines[i] = "short79"
                 THEN /\ dispatched'.kind = "Recoverable"
                      /\ dispatched'.msg =
                            <<"Chapter outlines should be a few sentences at least, but this one was only ",
                              "7", "9", " characters long: ", "short79",
                              ". Write longer outlines for each chapter.">>
                      /\ state' = state
                 ELSE /\ dispatched' = [kind |-> "Ok", next |-> Done, msg |-> <<>>]
                      /\ state'.chapter_summaries = outlines]_vars

C9_Witness ==
    /\ pc = "next"
    /\ dispatched.kind = "Ok"
    /\ turn_retries = 1
    /\ turn_sends = 2
    /\ Len(messages) = 4
    /\ messages[3].role = "user"
    /\ messages[3].content[1][1] = "Error: "
    /\ messages[3].content[1][2] =
          "Chapter outlines should be a few sentences at least, but this one was only "
    /\ state.chapter_summaries = <<"long80">>
    /\ next_prompt.kind = "Done"

\* C10: when the current outcome is Done the only step of drive is to return Ok(())
\* without a gateway call, a handler invocation or a new turn, and after that return
\* nothing more happens.
C10_DoneTerminates ==
    /\ [][(pc = "next" /\ next_prompt.kind = "Done") =>
             /\ pc' = "done"
             /\ result' = <<[ok |-> TRUE, err |-> <<>>]>>
             /\ panic' = <<>>
             /\ sends' = sends
             /\ calls' = calls
             /\ turn' = turn
             /\ state' = state]_vars
    /\ [][(pc = "done" /\ result = <<[ok |-> TRUE, err |-> <<>>]>>) =>
             UNCHANGED <<pc, result, sends, calls, turn, state, request>>]_vars

C10_Witness ==
    /\ pc = "done"
    /\ result = <<[ok |-> TRUE, err |-> <<>>]>>
    /\ next_prompt.kind = "Done"
    /\ turn = 2
    /\ sends = 3

\* C11: a call of call_function with a name that no declared function bears returns
\* Recoverable with the text "Function <name> not found" (capital F), <name> being
\* the given name, invokes no handler and leaves the agent state as it was.
C11_UnknownNameRecoverable ==
    [][(call' /= <<>> /\ call'[1].name \notin
            {"A", "B", "write_chapter_outlines", "write_random_words"}) =>
          /\ dispatched'.kind = "Recoverable"
          /\ dispatched'.msg = <<"Function ", call'[1].name, " not found">>
          /\ calls' = calls
          /\ state' = state]_vars

\* an unknown name is dispatched on an agent whose state a handler has written
C11_Witness ==
    /\ call /= <<>>
    /\ call[1].name = "Y"
    /\ dispatched.kind = "Recoverable"
    /\ dispatched.msg = <<"Function ", "Y", " not found">>
    /\ calls = 1
    /\ state.data = <<"w1", "w2">>

\* C11 as stated: the text is "function <name> not found"
C11_Original ==
    [][(call' /= <<>> /\ call'[1].name \notin
            {"A", "B", "write_chapter_outlines", "write_random_words"}) =>
          /\ dispatched'.kind = "Recoverable"
          /\ dispatched'.msg = <<"function ", call'[1].name, " not found">>
          /\ calls' = calls
          /\ state' = state]_vars

\* C12: a call of call_function with the name of a declared function and a payload
\* that is not JSON (empty or garbage), or whose key is none of the spellings accepted
\* for the function's parameter, returns Recoverable carrying the text of the serde
\* error, never Unrecoverable, invokes no handler and leaves the agent state as it was.
C12_BadPayloadRecoverable ==
    [][(/\ call' /= <<>>
        /\ call'[1].name \in {"A", "B", "write_chapter_outlines", "write_random_words"}
        /\ \/ call'[1].arguments = <<>>
           \/ call'[1].arguments[1] = "<not json>"
           \/ /\ call'[1].name \in {"A", "B"}
              /\ call'[1].arguments[1] \notin {"input", "Input"}
           \/ /\ call'[1].name = "write_chapter_outlines"
              /\ call'[1].arguments[1] \notin {"outlines", "Outlines"}
           \/ /\ call'[1].name = "write_random_words"
              /\ call'[1].arguments[1] \notin {"random_words", "randomWords", "RandomWords"})
       =>
          /\ dispatched'.kind = "Recoverable"
          /\ dispatched'.kind /= "Unrecoverable"
          /\ dispatched'.msg =
                IF call'[1].arguments = <<>>
                THEN <<"EOF while parsing a value at line 1 column 0">>
                ELSE IF call'[1].arguments[1] = "<not json>"
                THEN <<"expected value at line 1 column 1">>
                ELSE <<"missing field ",
                       CASE call'[1].name = "write_chapter_outlines" -> "outlines"
                         [] call'[1].name = "write_random_words" -> "random_words"
                         [] OTHER -> "input",
                       "">>
          /\ calls' = calls
          /\ state' = state]_vars

\* a declared function is called without its parameter, and called with text that is
\* not JSON, on an agent whose state a handler has written
C12_Witness ==
    /\ call /= <<>>
    /\ call[1].name = "write_random_words"
    /\ \/ call[1].arguments = <<"random-words", "w1", "w2">>
          /\ dispatched.msg = <<"missing field ", "random_words", "">>
       \/ call[1].arguments = <<"<not json>">>
          /\ dispatched.msg = <<"expected value at line 1 column 1">>
    /\ dispatched.kind = "Recoverable"
    /\ calls = 1
    /\ state.data = <<"text">>

C15_BackoffDoublesToCap ==
    /\ [](pc = "sleep" => (wait_time \in {1, 2, 4, 8, 16, 32} /\ wait_time <= 60))
    /\ [][/\ (pc = "for" /\ pc' = "http") => wait_time' = 1
          /\ (pc = "http" /\ pc' = "sleep") =>
                (wait_time <= 60 /\ wait_time' = wait_time /\ sends' = sends)
          /\ pc = "sleep" =>
                (pc' = "http" /\ wait_time' = 2 * wait_time /\ sends' = sends
                 /\ request' = request)
          /\ (pc = "http" /\ wait_time > 60) => (pc' /= "sleep" /\ sends' = sends)
          /\ panic' = <<"ExceededMaxWaitTime">> =>
                (pc = "http" /\ wait_time = 64 /\ pc' = "panicked" /\ result' = <<>>
                 /\ sends' = sends)]_vars

\* the seventh "too many requests" answer of one call has ended the process
C15_Witness ==
    /\ panic = <<"ExceededMaxWaitTime">>
    /\ pc = "panicked"
    /\ result = <<>>
    /\ sends = 1

\* C16: when the Prompt at the head of a turn lists a name that no declared function
\* bears, alone or after names that resolve, drive panics in that step: no request is
\* built or sent for the turn, no iteration of the attempt loop begins, no handler is
\* called, nothing is returned, and nothing happens afterwards.
C16_UnresolvedNameAborts ==
    /\ [](panic = <<"UnresolvedFunction">> => (pc = "panicked" /\ result = <<>>))
    /\ [][(/\ pc = "next"
            /\ next_prompt.kind = "Prompt"
            /\ \E i \in 1..Len(next_prompt.functions) :
                  next_prompt.functions[i] \notin
                      {"A", "B", "write_chapter_outlines", "write_random_words"})
           =>
              /\ pc' = "panicked"
              /\ panic' = <<"UnresolvedFunction">>
              /\ result' = <<>>
              /\ request' = <<>>
              /\ attempt' = 0
              /\ sends' = sends
              /\ turn_sends' = turn_sends
              /\ turn' = turn
              /\ calls' = calls
              /\ state' = state]_vars

\* the second turn's Prompt lists A and then the undeclared X: the run has ended
\* with the one send of the first turn
C16_Witness ==
    /\ panic = <<"UnresolvedFunction">>
    /\ next_prompt.functions = <<"A", "X">>
    /\ turn = 1
    /\ sends = 1
    /\ calls = 1

\* C17: when the invocation drive dispatches names a declared function that the
\* turn's Prompt does not list, the handler of that function is called all the same
\* (the answer is not "Function <name> not found"), with the argument of the payload,
\* and if it succeeds the turn ends and its outcome becomes the next Prompt or Done.
C17_DispatchOutsideAllowedSet ==
    [][(/\ call' /= <<>>
        /\ pc = "http"
        /\ call'[1].name \in {"A", "B", "write_chapter_outlines", "write_random_words"}
        /\ \A i \in 1..Len(next_prompt.functions) :
              next_prompt.functions[i] /= call'[1].name)
       =>
          /\ calls' = calls + 1
          /\ dispatched'.msg /= <<"Function ", call'[1].name, " not found">>
          /\ call'[1].name \in {"A", "B"} => state'.data = Tail(call'[1].arguments)
          /\ dispatched'.kind = "Ok" =>
                (pc' = "next" /\ next_prompt' = dispatched'.next /\ result' = <<>>)]_vars

\* the turn allowed only A and forced it; the backend named B, whose handler ran and
\* whose outcome is the next Prompt
C17_Witness ==
    /\ call /= <<>>
    /\ call[1].name = "B"
    /\ Len(functions) = 1
    /\ functions[1].name = "A"
    /\ function_call = [mode |-> "exact", name |-> "A"]
    /\ dispatched.kind = "Ok"
    /\ pc = "next"
    /\ next_prompt = dispatched.next
    /\ next_prompt.kind = "Prompt"
    /\ state.data = <<"text">>
    /\ calls = 1

\* C18: no message of the turn's message list, and no message of a request handed to
\* chat_completion, carries a function_call: the invocations the backend returned
\* are in the list as assistant messages whose content is the serialised invocation.
C18_NoRawInvocationInHistory ==
    /\ \A i \in 1..Len(messages) :
          /\ messages[i].function_call = <<>>
          /\ messages[i].content /= <<>>
    /\ request /= <<>> =>
          \A i \in 1..Len(request[1].messages) :
              /\ request[1].messages[i].function_call = <<>>
              /\ request[1].messages[i].content /= <<>>

\* a request is out whose second message is the echo of a returned invocation
C18_Witness ==
    /\ request /= <<>>
    /\ Len(request[1].messages) = 3
    /\ request[1].messages[2].role = "assistant"
    /\ request[1].messages[2].content =
          <<(<<"{\"name\":", "X", ",\"arguments\":", "input", "text", "}">>)>>
    /\ request[1].messages[2].function_call = <<>>

\* C19: a turn begins with a message list of exactly one message, the user message
\* with the text of the turn's Prompt; the first request of a turn carries exactly
\* that list; and throughout a turn the list is that message followed by one echo
\* and one correction for each Recoverable result of this turn, so that nothing of
\* an earlier turn is in any request of a later one.
C19_TurnStartsFresh ==
    /\ []((request /= <<>> /\ attempt = 1) =>
            request[1].messages =
                <<[role |-> "user", content |-> <<next_prompt.prompt>>,
                   function_call |-> <<>>]>>)
    /\ [](pc \in {"for", "http", "sleep"} =>
            /\ Len(messages) = 1 + 2 * turn_retries
            /\ messages[1] = [role |-> "user", content |-> <<next_prompt.prompt>>,
                               function_call |-> <<>>]
            /\ request /= <<>> => request[1].messages = messages)
    /\ [][(pc = "next" /\ pc' = "for") =>
            messages' = <<[role |-> "user", content |-> <<next_prompt.prompt>>,
                           function_call |-> <<>>]>>]_vars

\* the first request of the second turn is out, after a first turn whose list had
\* grown to five messages over three sends
C19_Witness ==
    /\ turn = 2
    /\ sends = 4
    /\ turn_sends = 1
    /\ attempt = 1
    /\ request /= <<>>
    /\ Len(request[1].messages) = 1
    /\ request[1].messages[1].role = "user"
    /\ request[1].messages[1].content = <<next_prompt.prompt>>

\* C20: the Prompt of every turn drive has begun lists at least one function, and
\* every request handed to chat_completion advertises at least one descriptor.
C20_AllowedFunctionsNonEmpty ==
    /\ pc \in {"for", "http", "sleep"} => Len(next_prompt.functions) > 0
    /\ request /= <<>> =>
          (request[1].functions /= <<>> /\ Len(request[1].functions[1]) > 0)

\* C21: drive is one sequential flow.  A request is out exactly while drive waits in
\* chat_completion (for the answer or in a backoff sleep), and a new one is sent only
\* when none is out; no handler is called while a sleep is pending or while drive
\* looks up descriptors and builds the message list; the agent state and the count
\* of handler calls change only in a step that dispatches a returned invocation,
\* which is the step that ends the exchange.
C21_SingleSequentialFlow ==
    /\ []((request /= <<>>) <=> (pc \in {"http", "sleep"}))
    /\ [][/\ sends' /= sends =>
                (sends' = sends + 1 /\ request = <<>> /\ request' /= <<>> /\ pc = "for")
          /\ pc \in {"sleep", "next", "for"} =>
                (state' = state /\ calls' = calls /\ call' = <<>>)
          /\ call' = <<>> => (state' = state /\ calls' = calls)
          /\ (state' /= state \/ calls' /= calls) =>
                (/\ pc = "http"
                 /\ call' /= <<>>
                 /\ calls' = calls + 1
                 /\ request' = <<>>
                 /\ pc' \notin {"http", "sleep"})]_vars

\* the state a handler wrote in the first turn is there while the second turn's
\* request is in a backoff sleep
C21_Witness ==
    /\ pc = "sleep"
    /\ request /= <<>>
    /\ turn = 2
    /\ calls = 1
    /\ state.data = <<"text">>
    /\ wait_time = 4

\* C22: the attempts are counted for each turn apart.  A turn begins with no attempt
\* begun; it makes at most 5 sends; drive gives up with "Too many errors" only at the
\* head of the loop of a turn that has itself made 5 sends and met 5 Recoverable
\* results; and a run that has begun T turns has made at most 5 * T sends.
C22_BudgetPerTurn ==
    /\ [](/\ turn_sends <= 5
          /\ sends <= 5 * turn
          /\ pc \in {"for", "http", "sleep"} => attempt = turn_sends)
    /\ [][/\ (pc = "next" /\ pc' = "for") =>
                (attempt' = 0 /\ turn_sends' = 0 /\ turn' = turn + 1)
          /\ (pc = "for" /\ turn_sends < 5) => (pc' = "http" /\ sends' = sends + 1)
          /\ (pc = "for" /\ pc' = "done") =>
                (/\ turn_sends = 5
                 /\ turn_retries = 5
                 /\ result' = <<[ok |-> FALSE, err |-> <<"Too many errors">>]>>)]_vars

\* the second turn has made its fifth send after a first turn that needed five
C22_Witness ==
    /\ turn = 2
    /\ turn_sends = 5
    /\ sends = 10
    /\ pc = "http"
    /\ calls >= 1

\* C23: one call of chat_completion comes to an end: it has posted between 1 and 7
\* requests and slept at most 63 seconds in at most 6 sleeps; it posts again only
\* after a sleep, which follows only a "too many requests" answer, and the sleeps
\* are of 1, 2, 4, 8, 16 and 32 seconds; the "too many requests" answer to the
\* seventh request is the panic; and every other end of a request (another status,
\* a transport failure) ends the call in that step, with no further request.
C23_GatewaySendFinishes ==
    /\ [](pc \in {"http", "sleep"} =>
            /\ posts \in 1..7
            /\ slept \in {0, 1, 3, 7, 15, 31, 63}
            /\ pc = "sleep" => posts <= 6)
    /\ [][/\ (pc /= "for" /\ pc' = "http") =>
                (/\ pc = "sleep"
                 /\ posts' = posts + 1
                 /\ slept' = slept + wait_time
                 /\ wait_time \in {1, 2, 4, 8, 16, 32})
          /\ (pc = "http" /\ posts = 7) => pc' \notin {"http", "sleep"}
          /\ panic' = <<"ExceededMaxWaitTime">> => (posts = 7 /\ slept = 63)
          /\ (pc = "http" /\ pc' /= "sleep") =>
                (pc' \in {"next", "for", "done", "panicked"} /\ sends' = sends
                 /\ request' = <<>>)
          /\ panic' \in {<<"TransportFailure">>, <<"MalformedBody">>} =>
                (pc = "http" /\ pc' = "panicked" /\ sends' = sends)]_vars
    /\ (pc \in {"http", "sleep"}) ~> (pc \notin {"http", "sleep"})

\* the seventh request of one call is out, after six sleeps of 63 seconds in all
C23_Witness ==
    /\ pc = "http"
    /\ posts = 7
    /\ slept = 63
    /\ wait_time = 64
    /\ turn_sends = 1

====
